---------------------------- MODULE Spec2Model ----------------------------
(***************************************************************************)
(* Model of twosquares: decomposition of primes as x^2 + d*y^2 (Cornacchia *)
(* with a Tonelli-Shanks modular square root) and of integers as sums of   *)
(* two squares (factorisation followed by enumeration over Gaussian        *)
(* integers).  Source: twosquares/__init__.py.                             *)
(***************************************************************************)
EXTENDS Integers, Sequences, FiniteSets, TLC

VARIABLES
    ms,        \* frame of one _mod_sqrt_prime call: its locals and position
    cache,     \* memo of decompose_prime (functools.cache): args tuple -> result
    req,       \* the call being made by the client (op and arguments)
    out,       \* outcome of the last finished call
    argDict,   \* the client's factor mapping object (list of <<prime, exponent>>)
    seen       \* first outcome observed for each effective (p, d) of decompose_prime

vars == <<ms, cache, req, out, argDict, seen>>

-----------------------------------------------------------------------------
(* Bounds of the model *)

MaxP == 200         \* primes handed to _mod_sqrt_prime are at most MaxP
MaxA == 200         \* its argument a ranges over -MaxA..MaxA
MaxPrime == 200     \* primes handed to a single decompose_prime call
MaxD == 60          \* multipliers d of a single decompose_prime call
MaxN == 330         \* integers handed to decompose_number
MaxCheck == 4       \* check_count ranges over None, 0..MaxCheck
SeqMaxP == 5        \* primes used in sequences of calls
SeqMaxD == 2        \* multipliers used in sequences of calls
SeqMaxN == 5        \* integers used in sequences of calls

-----------------------------------------------------------------------------
(* Python builtins used by the source *)

None == -1          \* Optional[int] None; every int the source returns is >= 0

RECURSIVE PowMod(_, _, _)
PowMod(b, e, m) ==
    IF e = 0 THEN 1 % m
    ELSE LET h == PowMod(b, e \div 2, m)
         IN  IF e % 2 = 0 THEN (h * h) % m ELSE (((h * h) % m) * (b % m)) % m

RECURSIVE Pow(_, _)
Pow(b, e) == IF e = 0 THEN 1 ELSE b * Pow(b, e - 1)

RECURSIVE IsqrtFrom(_, _)
IsqrtFrom(n, k) == IF (k + 1) * (k + 1) > n THEN k ELSE IsqrtFrom(n, k + 1)

Isqrt(n) == IsqrtFrom(n, 0)

Abs(x) == IF x < 0 THEN -x ELSE x

IsPrime(n) == n > 1 /\ \A k \in 2..(n - 1) : k * k > n \/ n % k # 0

-----------------------------------------------------------------------------
(* _mod_sqrt_prime, one step per loop iteration.  A frame f holds the      *)
(* locals n, p, q, s, z, m, c, t, r, i, t2i, the position pc, the returned *)
(* value ret, and a, the argument n as it was passed.                      *)

MsFrame(a, p) ==
    [pc |-> "entry", a |-> a, n |-> a, p |-> p, q |-> 0, s |-> 0, z |-> 0, m |-> 0,
     c |-> 0, t |-> 0, r |-> 0, i |-> 0, t2i |-> 0, ret |-> None]

MsReturn(f, v) == [f EXCEPT !.pc = "done", !.ret = v]

\* lines 34-54 up to the first test of the while at line 52
MsEntryStep(f) ==
    LET n == f.n % f.p
        p == f.p
        g == [f EXCEPT !.n = n]
    IN  IF n = 0 THEN MsReturn(g, 0)
        ELSE IF p = 2 THEN MsReturn(g, n)
        ELSE IF PowMod(n, (p - 1) \div 2, p) # 1 THEN MsReturn(g, None)
        ELSE IF p % 4 = 3 THEN MsReturn(g, PowMod(n, (p + 1) \div 4, p))
        ELSE [g EXCEPT !.pc = "factor", !.q = p - 1, !.s = 0]

\* one test of the while at line 52, with its body or its exit (z = 2)
MsFactorStep(f) ==
    IF f.q % 2 = 0
    THEN [f EXCEPT !.s = f.s + 1, !.q = f.q \div 2]
    ELSE [f EXCEPT !.pc = "findz", !.z = 2]

\* variant: c starts from z^(2q)
MsInitLoopMutant(f) ==
    [f EXCEPT !.pc = "loop", !.m = f.s,
              !.c = PowMod(f.z, 2 * f.q, f.p),
              !.t = PowMod(f.n, f.q, f.p),
              !.r = PowMod(f.n, (f.q + 1) \div 2, f.p)]

\* lines 60-63
MsInitLoop(f) ==
    [f EXCEPT !.pc = "loop", !.m = f.s,
              !.c = PowMod(f.z, f.q, f.p),
              !.t = PowMod(f.n, f.q, f.p),
              !.r = PowMod(f.n, (f.q + 1) \div 2, f.p)]

\* one test of the while at line 57, with its body or its exit (lines 60-63)
MsFindZStep(f) ==
    IF PowMod(f.z, (f.p - 1) \div 2, f.p) # f.p - 1
    THEN [f EXCEPT !.z = f.z + 1]
    ELSE MsInitLoop(f)

\* one test of the while at line 65: lines 66-67, or the return at line 78
MsLoopStep(f) ==
    IF f.t # 1
    THEN [f EXCEPT !.pc = "inner", !.i = 1, !.t2i = (f.t * f.t) % f.p]
    ELSE MsReturn(f, f.r)

\* variant: m keeps its value (line 76 left out)
MsShiftStepMutant(f) ==
    IF f.m - f.i - 1 < 0
    THEN [f EXCEPT !.pc = "raise"]
    ELSE [f EXCEPT !.pc = "loop",
                   !.r = (f.r * PowMod(f.c, Pow(2, f.m - f.i - 1), f.p)) % f.p,
                   !.c = PowMod(f.c, Pow(2, f.m - f.i), f.p),
                   !.t = (f.t * PowMod(f.c, Pow(2, f.m - f.i), f.p)) % f.p]

\* lines 72-76; a negative shift count raises ValueError in Python
MsShiftStep(f) ==
    IF f.m - f.i - 1 < 0
    THEN [f EXCEPT !.pc = "raise"]
    ELSE LET b == PowMod(f.c, Pow(2, f.m - f.i - 1), f.p)
             c == (b * b) % f.p
         IN  [f EXCEPT !.pc = "loop",
                       !.r = (f.r * b) % f.p,
                       !.c = c,
                       !.t = (f.t * c) % f.p,
                       !.m = f.i]

\* one test of the while at line 68, with its body or its exit (lines 72-76)
MsInnerStep(f) ==
    IF f.i < f.m /\ f.t2i # 1
    THEN [f EXCEPT !.t2i = (f.t2i * f.t2i) % f.p, !.i = f.i + 1]
    ELSE MsShiftStep(f)

MsStep(f) ==
    CASE f.pc = "entry"  -> MsEntryStep(f)
      [] f.pc = "factor" -> MsFactorStep(f)
      [] f.pc = "findz"  -> MsFindZStep(f)
      [] f.pc = "loop"   -> MsLoopStep(f)
      [] f.pc = "inner"  -> MsInnerStep(f)
      [] OTHER           -> f

RECURSIVE MsRun(_)
MsRun(f) == IF f.pc \in {"done", "raise"} THEN f ELSE MsRun(MsStep(f))

\* the value _mod_sqrt_prime(a, p) returns
_mod_sqrt_prime(a, p) == MsRun(MsFrame(a, p)).ret

-----------------------------------------------------------------------------
(* _euclids_algorithm and decompose_prime *)

NonePair == <<None, None>>      \* Optional[tuple[int, int]] None

\* lines 83-89: remainders of (a, b) down to the first one <= c
RECURSIVE _euclids_algorithm(_, _, _)
_euclids_algorithm(a, b, c) ==
    IF b > c
    THEN LET r == a % b
         IN  IF r = 0 THEN None ELSE _euclids_algorithm(b, r, c)
    ELSE b

\* lines 136-141, with y = math.isqrt(y2)
RootFromY(x, y2, y) == IF y * y # y2 THEN NonePair ELSE <<Abs(x), Abs(y)>>

\* variant: rhs is divided by d without the test rhs % d
RootFromXMutant(p, d, x) ==
    IF x = None THEN NonePair
    ELSE IF p - x * x < 0 THEN NonePair
    ELSE RootFromY(x, (p - x * x) \div d, Isqrt((p - x * x) \div d))

\* lines 129-141, with x the remainder Euclid's algorithm returned
RootFromX(p, d, x) ==
    IF x = None THEN NonePair
    ELSE IF p - x * x < 0 \/ (p - x * x) % d # 0 THEN NonePair
    ELSE RootFromY(x, (p - x * x) \div d, Isqrt((p - x * x) \div d))

\* lines 125-141
_try_cornacchia_root(p, d, t) == RootFromX(p, d, _euclids_algorithm(p, t, Isqrt(p)))

\* outcome of a call: a returned value, or the message of the ValueError raised
Return(v) == [exc |-> "", val |-> v]
Raise(msg) == [exc |-> msg, val |-> <<>>]

CouldNotDecompose == "Could not decompose"
InvalidD == "d must be >= 1"

\* variant: no swap
CanonicalOrderMutant(res, d) == res

\* lines 150-153
CanonicalOrder(res, d) ==
    IF res[1] > res[2] /\ d = 1 THEN <<res[2], res[1]>> ELSE res

\* lines 144-145: res is what the root t gave; its complement is tried next
SecondTry(p, d, t, res) ==
    IF res = NonePair THEN _try_cornacchia_root(p, d, (p - t) % p) ELSE res

\* lines 147-153
Canonical(res, d) ==
    IF res = NonePair THEN Raise(CouldNotDecompose) ELSE Return(CanonicalOrder(res, d))

\* lines 122-153, with t the modular square root of -d
FromRoot(p, d, t) ==
    IF t = None THEN Raise(CouldNotDecompose)
    ELSE Canonical(SecondTry(p, d, t, _try_cornacchia_root(p, d, t)), d)

\* lines 109-153: the body of decompose_prime, without the memo
decompose_prime_body(p, d) ==
    IF d < 1 THEN Raise(InvalidD)
    ELSE IF p = 2
    THEN IF d = 1 THEN Return(<<1, 1>>)
         ELSE IF d = 2 THEN Return(<<0, 1>>)
         ELSE Raise(CouldNotDecompose)
    ELSE FromRoot(p, d, _mod_sqrt_prime((-d) % p, p))

\* the parameters (p, d) bound by a call with positional arguments args
BoundArgs(args) == IF Len(args) = 1 THEN <<args[1], 1>> ELSE args

\* variant: the memo is keyed by p alone
CacheKeyMutant(args) == <<args[1]>>

\* functools.cache keys an entry by the arguments as passed: (p,) or (p, d)
CacheKey(args) == args

\* functools.cache stores what the body returned; a raised call stores nothing
Store(m, key, o) ==
    [outcome |-> o, cache |-> IF o.exc = "" THEN m @@ (key :> o.val) ELSE m,
     hit |-> FALSE]

\* line 92: decompose_prime through its memo m; hit says the memo answered
decompose_prime(m, args) ==
    IF CacheKey(args) \in DOMAIN m
    THEN [outcome |-> Return(m[CacheKey(args)]), cache |-> m, hit |-> TRUE]
    ELSE Store(m, CacheKey(args),
               decompose_prime_body(BoundArgs(args)[1], BoundArgs(args)[2]))

\* one call of decompose_prime, as the client or decompose_number observes it
CallRecord(p, d, c) == [p |-> p, d |-> d, outcome |-> c.outcome, hit |-> c.hit]

-----------------------------------------------------------------------------
(* factorint and the Gaussian integers (quadint.complexint) used by        *)
(* decompose_number.  A dict is modelled as the list of its items in       *)
(* insertion order, which is the order Python iterates it in.              *)

RECURSIVE Multiplicity(_, _)
Multiplicity(n, p) == IF n % p = 0 THEN 1 + Multiplicity(n \div p, p) ELSE 0

RECURSIVE FactorFrom(_, _)
FactorFrom(n, p) ==
    IF n = 1 THEN <<>>
    ELSE IF p * p > n THEN << <<n, 1>> >>
    ELSE IF n % p = 0
         THEN LET k == Multiplicity(n, p)
              IN  << <<p, k>> >> \o FactorFrom(n \div Pow(p, k), p + 1)
         ELSE FactorFrom(n, p + 1)

\* lines 19-29: prime -> exponent, primes ascending
factorint(n) == FactorFrom(n, 2)

\* complexint.__mul__
CMul(a, b) == <<a[1] * b[1] - a[2] * b[2], a[1] * b[2] + a[2] * b[1]>>

\* complexint.__pow__
RECURSIVE CPow(_, _)
CPow(a, k) == IF k = 0 THEN <<1, 0>> ELSE CMul(a, CPow(a, k - 1))

RECURSIVE SumValues(_)
SumValues(fs) == IF fs = <<>> THEN 0 ELSE Head(fs)[2] + SumValues(Tail(fs))

\* dict.get(key, default)
RECURSIVE Get(_, _, _)
Get(fs, key, default) ==
    IF fs = <<>> THEN default
    ELSE IF Head(fs)[1] = key THEN Head(fs)[2] ELSE Get(Tail(fs), key, default)

\* factors[key] -= 1
RECURSIVE Decrement(_, _)
Decrement(fs, key) ==
    IF fs = <<>> THEN <<>>
    ELSE IF Head(fs)[1] = key
         THEN << <<key, Head(fs)[2] - 1>> >> \o Tail(fs)
         ELSE <<Head(fs)>> \o Decrement(Tail(fs), key)

\* line 218: math.prod(f + 1 for f in p_1.values())
RECURSIVE PredictedCount(_)
PredictedCount(p_1) ==
    IF p_1 = <<>> THEN 1 ELSE (Head(p_1)[2] + 1) * PredictedCount(Tail(p_1))

\* line 229: math.prod(p**(k // 2) for p, k in p_3.items())
RECURSIVE P3Coefficients(_)
P3Coefficients(p_3) ==
    IF p_3 = <<>> THEN 1
    ELSE Pow(Head(p_3)[1], Head(p_3)[2] \div 2) * P3Coefficients(Tail(p_3))

\* line 231: decompose_prime(p) for each key of factors, in order, through the
\* memo m; the first call that raises ends the comprehension
RECURSIVE PDecompositions(_, _)

Prepend(call, rest) ==
    [exc |-> rest.exc, cache |-> rest.cache, calls |-> <<call>> \o rest.calls]

NextDecomposition(p, c, fs) ==
    IF c.outcome.exc # ""
    THEN [exc |-> c.outcome.exc, cache |-> c.cache,
          calls |-> <<CallRecord(p, 1, c)>>]
    ELSE Prepend(CallRecord(p, 1, c), PDecompositions(c.cache, fs))

PDecompositions(m, fs) ==
    IF fs = <<>> THEN [exc |-> "", cache |-> m, calls |-> <<>>]
    ELSE NextDecomposition(Head(fs)[1], decompose_prime(m, <<Head(fs)[1]>>), Tail(fs))

\* line 233: (complexint(*d), complexint(d[0], -d[1])) for the prime p
RECURSIVE PExpDecompositions(_, _)
PExpDecompositions(calls, p) ==
    IF Head(calls).p = p
    THEN <<Head(calls).outcome.val,
           <<Head(calls).outcome.val[1], -Head(calls).outcome.val[2]>>>>
    ELSE PExpDecompositions(Tail(calls), p)

\* lines 252-257: the keys of factors, each repeated as often as its exponent
RECURSIVE Occurrences(_)
Occurrences(fs) ==
    IF fs = <<>> THEN <<>>
    ELSE [j \in 1..Head(fs)[2] |-> Head(fs)[1]] \o Occurrences(Tail(fs))

\* lines 250-257: base_item times the chosen representative of each occurrence
RECURSIVE Total(_, _, _, _, _)
Total(base_item, occ, choices, calls, choice_i) ==
    IF choice_i > Len(occ) THEN base_item
    ELSE Total(CMul(base_item,
                    PExpDecompositions(calls, occ[choice_i])[choices[choice_i] + 1]),
               occ, choices, calls, choice_i + 1)

-----------------------------------------------------------------------------
(* decompose_number.  It returns a record: outcome (the set returned or    *)
(* the error raised), cache (the memo afterwards), calls (the calls of     *)
(* decompose_prime it made) and arg (the caller's mapping afterwards).     *)

Truthy(check_count) == check_count # None /\ check_count # 0

NumberResult(outcome, m, calls, arg) ==
    [outcome |-> outcome, cache |-> m, calls |-> calls, arg |-> arg]

\* line 199
ShortcutResult(p, c, factors) ==
    NumberResult(IF c.outcome.exc # "" THEN c.outcome ELSE Return({c.outcome.val}),
                 c.cache, <<CallRecord(p, 1, c)>>, factors)

\* lines 185-199: the number is one prime to the first power
PrimeShortcut(m, factors, check_count, no_trivial_solutions) ==
    IF Truthy(check_count) /\ check_count > 1
    THEN NumberResult(Return({}), m, <<>>, factors)
    ELSE IF factors[1][1] % 4 = 3 THEN NumberResult(Return({}), m, <<>>, factors)
    ELSE IF factors[1][1] = 0 THEN NumberResult(Return({<<0, 0>>}), m, <<>>, factors)
    ELSE IF factors[1][1] = 2 /\ no_trivial_solutions
    THEN NumberResult(Return({}), m, <<>>, factors)
    ELSE ShortcutResult(factors[1][1], decompose_prime(m, <<factors[1][1]>>), factors)

\* variant: no parity test
ParityRejectMutant(p_3, limited_checks, no_trivial_solutions) == FALSE

\* line 210
ParityReject(p_3, limited_checks, no_trivial_solutions) ==
    /\ (~limited_checks) \/ no_trivial_solutions
    /\ \E j \in 1..Len(p_3) : p_3[j][2] % 2 = 1

\* line 218
CountReject(p_1, check_count) ==
    Truthy(check_count) /\ PredictedCount(p_1) < check_count

\* variant: p_1 shares its entries with the caller's mapping
SubtractBaseItemMutant(heap, first_p) ==
    [heap EXCEPT !.p_1 = Decrement(heap.p_1, first_p),
                 !.arg = Decrement(heap.arg, first_p)]

\* line 242: factors names the object p_1 (line 225), not the caller's mapping
SubtractBaseItem(heap, first_p) ==
    [heap EXCEPT !.p_1 = Decrement(heap.p_1, first_p)]

\* variant: symmetric solutions are kept
IsTrivialMutant(sol) == sol[1] = 0 \/ sol[2] = 0

\* line 259
IsTrivial(sol) == sol[1] = sol[2] \/ sol[1] = 0 \/ sol[2] = 0

\* variant: the power of two is left out (line 236)
BaseCoefficientMutant(p_3, two_power) == <<P3Coefficients(p_3), 0>>

\* lines 229 and 236: the primes 3 mod 4 and the power of two
BaseCoefficient(p_3, two_power) ==
    CMul(<<P3Coefficients(p_3), 0>>, CPow(<<1, 1>>, two_power))

\* line 258: the candidate pair of a product
Sol(total) == <<Abs(total[1]), Abs(total[2])>>

\* lines 261-262
Ordered(sol) == IF sol[2] < sol[1] THEN <<sol[2], sol[1]>> ELSE sol

\* lines 247-264: one solution for each tuple of choices
Found(base_item, occ, calls, no_trivial_solutions) ==
    {Ordered(sol) :
        sol \in {x \in {Sol(Total(base_item, occ, choices, calls, 1)) :
                            choices \in [1..Len(occ) -> {0, 1}]} :
                    ~(no_trivial_solutions /\ IsTrivial(x))}}

\* lines 247-264, from the base item and the objects as they are at line 247
Enumerate(base_item, heap, dec, no_trivial_solutions) ==
    NumberResult(
        Return(Found(base_item, Occurrences(heap.p_1), dec.calls, no_trivial_solutions)),
        dec.cache, dec.calls, heap.arg)

\* lines 238-245: the base item; factors names the object p_1 (line 225)
WithBaseItem(coefficients, heap, dec, no_trivial_solutions) ==
    IF no_trivial_solutions
    THEN Enumerate(CMul(coefficients, PExpDecompositions(dec.calls, heap.p_1[1][1])[1]),
                   SubtractBaseItem(heap, heap.p_1[1][1]), dec, no_trivial_solutions)
    ELSE Enumerate(coefficients, heap, dec, no_trivial_solutions)

\* lines 224-236; a decompose_prime that raises ends the call
Combine(n, p_1, p_3, dec, no_trivial_solutions) ==
    IF dec.exc # ""
    THEN NumberResult(Raise(dec.exc), dec.cache, dec.calls, n)
    ELSE WithBaseItem(BaseCoefficient(p_3, Get(n, 2, 0)), [arg |-> n, p_1 |-> p_1],
                      dec, no_trivial_solutions)

\* lines 210-222: the exits before any decomposition
Rejected(p_1, p_3, check_count, limited_checks, no_trivial_solutions) ==
    \/ ParityReject(p_3, limited_checks, no_trivial_solutions)
    \/ p_1 = <<>> /\ no_trivial_solutions
    \/ CountReject(p_1, check_count)

\* lines 202-208
P1(n) == SelectSeq(n, LAMBDA e : e[1] % 4 = 1)
P3(n) == SelectSeq(n, LAMBDA e : e[1] % 4 = 3)

\* lines 201-264
GeneralCase(m, n, check_count, limited_checks, no_trivial_solutions) ==
    IF Rejected(P1(n), P3(n), check_count, limited_checks, no_trivial_solutions)
    THEN NumberResult(Return({}), m, <<>>, n)
    ELSE Combine(n, P1(n), P3(n), PDecompositions(m, P1(n)), no_trivial_solutions)

\* lines 156-264, with n the factor mapping (line 182)
decompose_number(m, n, check_count, limited_checks, no_trivial_solutions) ==
    IF Len(n) = 1 /\ SumValues(n) = 1
    THEN PrimeShortcut(m, n, check_count, no_trivial_solutions)
    ELSE GeneralCase(m, n, check_count, limited_checks, no_trivial_solutions)

-----------------------------------------------------------------------------
(* The state machine: a client calls the library's functions.              *)

EmptyMap == [k \in {} |-> <<>>]

IdleFrame == [MsFrame(0, 2) EXCEPT !.pc = "idle"]

Pending == [state |-> "pending", outcome |-> Return({}), calls |-> <<>>]

PrimesUpTo(k) == {p \in 2..k : IsPrime(p)}

\* no call has been made yet
NoRequest ==
    [op |-> "none", args |-> <<>>, n |-> 0, form |-> "int", factors |-> <<>>,
     check_count |-> None, limited_checks |-> FALSE, no_trivial_solutions |-> TRUE]

\* decompose_prime(p) and decompose_prime(p, d)
PrimeRequest(args) ==
    [op |-> "prime", args |-> args, n |-> 0, form |-> "int", factors |-> <<>>,
     check_count |-> None, limited_checks |-> FALSE, no_trivial_solutions |-> TRUE]

\* decompose_number(n, check_count, limited_checks=, no_trivial_solutions=), with
\* n an int (form "int") or the mapping factors (form "dict")
NumberRequest(n, form, factors, cc, lc, nt) ==
    [op |-> "number", args |-> <<>>, n |-> n, form |-> form, factors |-> factors,
     check_count |-> cc, limited_checks |-> lc, no_trivial_solutions |-> nt]

PrimeRequests(maxp, maxd) ==
    {PrimeRequest(<<p>>) : p \in PrimesUpTo(maxp)}
        \cup {PrimeRequest(<<p, d>>) : p \in PrimesUpTo(maxp), d \in 0..maxd}

\* the mappings a caller can build for n: its factorisation in any key order
Mappings(n) ==
    LET fs == factorint(n)
    IN  {[j \in 1..Len(fs) |-> fs[f[j]]] : f \in Permutations(1..Len(fs))}

NumberRequests(maxn, maxc) ==
    {NumberRequest(n, "int", <<>>, cc, lc, nt) :
        n \in 1..maxn, cc \in {None} \cup 0..maxc, lc \in BOOLEAN, nt \in BOOLEAN}
    \cup UNION {{NumberRequest(n, "dict", fs, cc, lc, nt) :
                    fs \in Mappings(n), cc \in {None} \cup 0..maxc,
                    lc \in BOOLEAN, nt \in BOOLEAN} : n \in 1..maxn}

\* the first outcome observed for each (p, d)
ObserveOne(sn, call) ==
    IF <<call.p, call.d>> \in DOMAIN sn THEN sn
    ELSE sn @@ (<<call.p, call.d>> :> call.outcome)

RECURSIVE Observe(_, _)
Observe(sn, calls) ==
    IF calls = <<>> THEN sn ELSE Observe(ObserveOne(sn, Head(calls)), Tail(calls))

PrimeReturns(r, c) ==
    /\ req' = r
    /\ cache' = c.cache
    /\ out' = [state |-> "done", outcome |-> c.outcome,
               calls |-> <<CallRecord(BoundArgs(r.args)[1], BoundArgs(r.args)[2], c)>>]
    /\ seen' = Observe(seen, <<CallRecord(BoundArgs(r.args)[1], BoundArgs(r.args)[2], c)>>)
    /\ UNCHANGED <<ms, argDict>>

\* a client calls decompose_prime
DecomposePrimeCall(r) == PrimeReturns(r, decompose_prime(cache, r.args))

NumberReturns(r, res) ==
    /\ req' = r
    /\ cache' = res.cache
    /\ out' = [state |-> "done", outcome |-> res.outcome, calls |-> res.calls]
    /\ argDict' = IF r.form = "dict" THEN res.arg ELSE <<>>
    /\ seen' = Observe(seen, res.calls)
    /\ UNCHANGED ms

\* line 182: the mapping the call works on
Factors(r) == IF r.form = "dict" THEN r.factors ELSE factorint(r.n)

\* a client calls decompose_number
DecomposeNumberCall(r) ==
    NumberReturns(r, decompose_number(cache, Factors(r), r.check_count,
                                      r.limited_checks, r.no_trivial_solutions))

Idle ==
    /\ cache = EmptyMap
    /\ seen = EmptyMap
    /\ out = Pending
    /\ argDict = <<>>

(* Sequences of calls in one process, sharing the memo *)

SeqPrimeRequests ==
    {r \in PrimeRequests(SeqMaxP, SeqMaxD) : BoundArgs(r.args)[2] >= 1}

SeqNumberRequests ==
    {NumberRequest(n, "int", <<>>, None, FALSE, nt) : n \in 1..SeqMaxN, nt \in BOOLEAN}

CallPrime == \E r \in SeqPrimeRequests : DecomposePrimeCall(r)

CallNumber == \E r \in SeqNumberRequests : DecomposeNumberCall(r)

Init ==
    /\ Idle
    /\ ms = IdleFrame
    /\ req = NoRequest

Next == CallPrime \/ CallNumber

Spec == Init /\ [][Next]_vars

(* One call of decompose_prime in a fresh process *)

InitPrime ==
    /\ Idle
    /\ ms = IdleFrame
    /\ req \in PrimeRequests(MaxPrime, MaxD)

NextPrime == out.state = "pending" /\ DecomposePrimeCall(req)

SpecPrime == InitPrime /\ [][NextPrime]_vars

(* One call of decompose_number in a fresh process *)

InitNumber ==
    /\ Idle
    /\ ms = IdleFrame
    /\ req \in NumberRequests(MaxN, MaxCheck)

NextNumber == out.state = "pending" /\ DecomposeNumberCall(req)

SpecNumber == InitNumber /\ [][NextNumber]_vars

(* One call of _mod_sqrt_prime, step by step *)

Others == <<cache, req, out, argDict, seen>>

MsEntry == ms.pc = "entry" /\ ms' = MsEntryStep(ms) /\ UNCHANGED Others

MsFactor == ms.pc = "factor" /\ ms' = MsFactorStep(ms) /\ UNCHANGED Others

MsFindZ == ms.pc = "findz" /\ ms' = MsFindZStep(ms) /\ UNCHANGED Others

MsLoop == ms.pc = "loop" /\ ms' = MsLoopStep(ms) /\ UNCHANGED Others

MsInner == ms.pc = "inner" /\ ms' = MsInnerStep(ms) /\ UNCHANGED Others

InitSqrt ==
    /\ Idle
    /\ req = NoRequest
    /\ ms \in {MsFrame(a, p) : a \in (-MaxA)..MaxA, p \in PrimesUpTo(MaxP)}

NextSqrt == MsEntry \/ MsFactor \/ MsFindZ \/ MsLoop \/ MsInner

\* the call runs to its end: nothing suspends it
SpecSqrt == InitSqrt /\ [][NextSqrt]_vars /\ WF_vars(NextSqrt)

-----------------------------------------------------------------------------
(* The claims *)

\* tests/test_decomposition.py, brute_force_twosquares: every pair of naturals
\* whose squares sum to n
SquarePairs(n) ==
    {s \in (0..Isqrt(n)) \X (0..Isqrt(n)) : s[1] * s[1] + s[2] * s[2] = n}

Done(op) == out.state = "done" /\ req.op = op

DefaultFlags == req.check_count = None /\ ~req.limited_checks

\* C1: decompose_number(n) with the default flags returns exactly the pairs
\* (x, y) with 0 < x < y and x*x + y*y = n.
C1_DefaultExact ==
    (Done("number") /\ req.form = "int" /\ DefaultFlags /\ req.no_trivial_solutions)
        => out.outcome = Return({s \in SquarePairs(req.n) : 0 < s[1] /\ s[1] < s[2]})

C1_Witness ==
    /\ Done("number") /\ req.form = "int" /\ DefaultFlags /\ req.no_trivial_solutions
    /\ out.outcome.exc = ""
    /\ Cardinality(out.outcome.val) = 2
    /\ Len(out.calls) = 2

\* C2: decompose_number(n, no_trivial_solutions=False) returns exactly the pairs
\* (x, y) with 0 <= x <= y and x*x + y*y = n, those with x = 0 or x = y included.
C2_AllExact ==
    (Done("number") /\ req.form = "int" /\ DefaultFlags /\ ~req.no_trivial_solutions)
        => out.outcome = Return({s \in SquarePairs(req.n) : s[1] <= s[2]})

C2_Witness ==
    /\ Done("number") /\ req.form = "int" /\ DefaultFlags /\ ~req.no_trivial_solutions
    /\ out.outcome.exc = ""
    /\ \E s \in out.outcome.val : s[1] = 0
    /\ \E s \in out.outcome.val : 0 < s[1] /\ s[1] < s[2]

\* C3: for a prime p with p mod 4 = 1, decompose_prime(p) with d = 1 returns
\* (x, y) with x*x + y*y = p and 0 <= x <= y.
C3_PrimeOneModFour ==
    (Done("prime") /\ BoundArgs(req.args)[2] = 1 /\ BoundArgs(req.args)[1] % 4 = 1)
        => /\ out.outcome.exc = ""
           /\ out.outcome.val[1] * out.outcome.val[1]
                + out.outcome.val[2] * out.outcome.val[2] = BoundArgs(req.args)[1]
           /\ 0 <= out.outcome.val[1]
           /\ out.outcome.val[1] <= out.outcome.val[2]

\* the Cornacchia step gave x > y for p = 5, and the call returned (1, 2)
C3_Witness ==
    /\ Done("prime") /\ req.args = <<5>>
    /\ _try_cornacchia_root(5, 1, _mod_sqrt_prime(4, 5)) = <<2, 1>>
    /\ out.outcome = Return(<<1, 2>>)

\* the pairs of naturals with x*x + d*y*y = p; each of x, y is at most isqrt(p)
Solutions(p, d) ==
    {s \in (0..Isqrt(p)) \X (0..Isqrt(p)) : s[1] * s[1] + d * s[2] * s[2] = p}

\* C4: for a prime p and d >= 1, decompose_prime(p, d) returns non-negative
\* (x, y) with x*x + d*y*y = p when such a pair exists and raises "Could not
\* decompose" exactly when none exists; so it raises for p mod 4 = 3 and d = 1.
C4_PrimeAnyD ==
    (Done("prime") /\ BoundArgs(req.args)[2] >= 1)
        => /\ Solutions(BoundArgs(req.args)[1], BoundArgs(req.args)[2]) # {}
                => /\ out.outcome.exc = ""
                   /\ out.outcome.val \in
                        Solutions(BoundArgs(req.args)[1], BoundArgs(req.args)[2])
           /\ Solutions(BoundArgs(req.args)[1], BoundArgs(req.args)[2]) = {}
                => out.outcome = Raise(CouldNotDecompose)
           /\ (BoundArgs(req.args)[2] = 1 /\ BoundArgs(req.args)[1] % 4 = 3)
                => out.outcome = Raise(CouldNotDecompose)

\* d > 1 keeps the order the algorithm produced: 43 = 5*5 + 2*3*3
C4_Witness ==
    /\ Done("prime") /\ req.args = <<43, 2>>
    /\ out.outcome = Return(<<5, 3>>)

\* C5: every call of decompose_prime, by the client or by decompose_number,
\* has the outcome of the first call with the same (p, d), which is the outcome
\* of the body without the memo; the memo holds only what the body returns.
C5_MemoTransparent ==
    /\ \A j \in 1..Len(out.calls) :
          /\ seen[<<out.calls[j].p, out.calls[j].d>>] = out.calls[j].outcome
          /\ out.calls[j].outcome = decompose_prime_body(out.calls[j].p, out.calls[j].d)
    /\ \A k \in DOMAIN cache :
          decompose_prime_body(BoundArgs(k)[1], BoundArgs(k)[2]) = Return(cache[k])

\* the memo answered the last call, after a call that raised
C5_Witness ==
    /\ out.state = "done"
    /\ \E j \in 1..Len(out.calls) : out.calls[j].hit
    /\ \E k \in DOMAIN seen : seen[k].exc # ""

NoRepresentation(n) == SquarePairs(n) = {}

\* C6 as stated: for n >= 1 and every combination of the flags, decompose_number
\* returns a set without raising, and the empty set when n has no representation.
C6_Original ==
    Done("number")
        => /\ out.outcome.exc = ""
           /\ \A j \in 1..Len(out.calls) : out.calls[j].outcome.exc = ""
           /\ NoRepresentation(req.n) => out.outcome.val = {}

\* C6 amended: decompose_number returns a set without raising; the set is empty
\* when n has no representation, unless limited_checks is true and
\* no_trivial_solutions is false.
C6_Amended ==
    Done("number")
        => /\ out.outcome.exc = ""
           /\ \A j \in 1..Len(out.calls) : out.calls[j].outcome.exc = ""
           /\ (NoRepresentation(req.n)
                 /\ (~req.limited_checks \/ req.no_trivial_solutions))
                => out.outcome.val = {}

\* 15 = 3 * 5 has no representation; the parity test rejects it although
\* limited_checks is set
C6_Witness ==
    /\ Done("number") /\ req.n = 15 /\ req.form = "dict"
    /\ req.limited_checks /\ req.no_trivial_solutions
    /\ out.outcome = Return({})

\* the call of the request without check_count, in a fresh process
WithoutCheckCount(r) ==
    decompose_number(EmptyMap, Factors(r), None, r.limited_checks,
                     r.no_trivial_solutions).outcome

\* C7: decompose_number(n, check_count=c) with c >= 1 returns the empty set when
\* the product of (e_i + 1) over the primes 1 mod 4 of n is below c, and otherwise
\* what decompose_number(n) returns; a single prime counts with its product.
C7_CountPruning ==
    (Done("number") /\ req.check_count >= 1
        /\ ~req.limited_checks /\ req.no_trivial_solutions)
        => out.outcome =
             IF PredictedCount(P1(factorint(req.n))) < req.check_count
             THEN Return({})
             ELSE WithoutCheckCount(req)

\* the same call again, with the mapping and the memo as the first call left them
SecondCall(r) ==
    decompose_number(cache, argDict, r.check_count, r.limited_checks,
                     r.no_trivial_solutions).outcome

\* C10: a mapping passed to decompose_number has the same keys and exponents
\* after the call, so the same call again returns the same result.
C10_MappingUnchanged ==
    (Done("number") /\ req.form = "dict")
        => /\ argDict = req.factors
           /\ SecondCall(req) = out.outcome

\* the base item took one occurrence of the first prime 1 mod 4
C10_Witness ==
    /\ Done("number") /\ req.form = "dict" /\ req.no_trivial_solutions
    /\ Len(req.factors) >= 2
    /\ Len(out.calls) >= 1
    /\ out.outcome.exc = "" /\ out.outcome.val # {}

IsResidue(a, p) == \E x \in 0..(p - 1) : (x * x) % p = a % p

\* C8: _mod_sqrt_prime(a, p) returns r in 0..p-1 with r*r = a (mod p) when a is
\* a residue (0 when a = 0 mod p), None exactly when a is a non-residue, and
\* a mod 2 when p = 2.
C8_ModSqrt ==
    /\ ms.pc # "raise"
    /\ ms.pc = "done"
        => /\ ms.p = 2 => ms.ret = ms.a % 2
           /\ ms.a % ms.p = 0 => ms.ret = 0
           /\ IsResidue(ms.a, ms.p)
                => /\ ms.ret \in 0..(ms.p - 1)
                   /\ (ms.ret * ms.ret) % ms.p = ms.a % ms.p
           /\ ~IsResidue(ms.a, ms.p) => ms.ret = None

\* a root found by the Tonelli-Shanks loop, after an inner search of two steps
C8_Witness ==
    /\ ms.pc = "done" /\ ms.p % 4 = 1
    /\ ms.m >= 1 /\ ms.i >= 2
    /\ ms.ret # None /\ (ms.ret * ms.ret) % ms.p = ms.a % ms.p

\* C9: the Tonelli-Shanks loop terminates: each inner search stops at an i with
\* 1 <= i < m, m is then set to i and so decreases, the shift is never negative,
\* and the call returns with t = 1.
C9_LoopTerminates ==
    /\ [](ms.pc = "inner" /\ ~(ms.i < ms.m /\ ms.t2i # 1)
            => 1 <= ms.i /\ ms.i < ms.m)
    /\ [][ms.pc = "inner" /\ ms'.pc = "loop" => ms'.m = ms.i /\ ms'.m < ms.m]_vars
    /\ [](ms.pc # "raise")
    /\ [](ms.pc = "done" /\ ms.m >= 1 => ms.t = 1)
    /\ <>(ms.pc = "done")

\* the loop was left after m decreased, with a non-residue z found above 2
C9_Witness ==
    /\ ms.pc = "done" /\ ms.z > 2
    /\ ms.m >= 1 /\ ms.m < ms.s
    /\ ms.t = 1

=============================================================================
